---- MODULE Spec2Model ----
(***************************************************************************)
(* Model of the Kuromi claw machine core: ClawController (claw.js),        *)
(* GameState (gameState.js) and PrizeGenerator (prize.js).                 *)
(*                                                                         *)
(* Time is counted in ticks of TickMs milliseconds.  setTimeout callbacks  *)
(* are kept in the bag `timers`; a callback runs when its remaining delay  *)
(* is 0, and time only advances when no callback is due.  Player commands  *)
(* (move, grab, drop, emergencyStop) may arrive at any instant.            *)
(* Probabilities are in hundredths (0.65 is 65).                           *)
(***************************************************************************)
EXTENDS Integers, Sequences, FiniteSets, Bags, TLC

VARIABLES
    claw,       \* ClawController: position, isMoving, isGrabbing, grabbedPrize
    gameState,  \* GameState: coins, points, streak, combo, totalPlays, isPlaying, ...
    prizes,     \* PrizeGenerator.prizes: id -> prize
    timers,     \* pending setTimeout callbacks (bag of [cb, delay, stale])
    last,       \* history: the operation that produced this state and its result
    dropped,    \* history: drop() released a prize since the last accepted grab
    budget      \* history: accepted commands and calls so far (saturating)

vars == <<claw, gameState, prizes, timers, last, dropped, budget>>

----------------------------------------------------------------------------
(* Bounds of the model *)

MaxMoves == 1        \* accepted moves explored by Spec
MaxGrabs == 1        \* accepted grabs explored by Spec
MaxStops == 1        \* emergency stops explored by Spec
MaxCoinsInput == 8   \* largest coin count given to getSuccessRate in SpecRate
MaxCalls == 3        \* GameState calls explored by SpecGame
MaxStack == 12       \* nested listener calls the call stack holds in SpecEvents

----------------------------------------------------------------------------
(* Constants of the program *)

moveStep == 8
moveSpeed == 500
grabSequenceTime == 2500
settleDelay == 1000

\* One tick of model time is the movement duration; every delay of the
\* program is a whole number of ticks
TickMs == moveSpeed

minX == 15
maxX == 85
minY == 15
maxY == 75

homePosition == [x |-> 50, y |-> 50]
dropZone == [x |-> 50, y |-> 70]

startingCoins == 5
maxStreak == 10
rateFloor == 30
rateCeiling == 90
streakBonusStep == 2
streakBonusCap == 10
lowCoinThreshold == 2
lowCoinPenaltyPct == 5
consolationPoints == 5
comboTimeout == 5000
coinBasePoints == 20

\* Points are counted in twentieths of a point, so that the 10% combo bonus
\* and the 5% streak bonus of processPrizeReward are whole numbers
pointScale == 20
grabTolerance == 15

successRates == [kuromiPlush |-> 65, yellowCoin |-> 80, pointToken |-> 75]

pointValues ==
    [kuromiPlush |-> [min |-> 50, max |-> 100],
     yellowCoin |-> [coins |-> 1],
     pointToken |-> [min |-> 10, max |-> 25]]

PrizeTypeNames == {"kuromiPlush", "yellowCoin", "pointToken", "purpleBall"}

Directions == {"left", "right", "forward", "back"}

NoPrize == 0

Min(a, b) == IF a < b THEN a ELSE b
Max(a, b) == IF a > b THEN a ELSE b

----------------------------------------------------------------------------
(* JavaScript numbers: a finite value or NaN.  Arithmetic on undefined     *)
(* yields NaN; Math.min / Math.max return NaN when an argument is NaN;     *)
(* every comparison with NaN is false.                                     *)

Num(v) == [nan |-> FALSE, v |-> v]
NaN == [nan |-> TRUE, v |-> 0]

JsAdd(a, b) == IF a.nan \/ b.nan THEN NaN ELSE Num(a.v + b.v)
JsSub(a, b) == IF a.nan \/ b.nan THEN NaN ELSE Num(a.v - b.v)
MathMin(a, b) == IF a.nan \/ b.nan THEN NaN ELSE Num(Min(a.v, b.v))
MathMax(a, b) == IF a.nan \/ b.nan THEN NaN ELSE Num(Max(a.v, b.v))
JsLe(a, b) == ~a.nan /\ ~b.nan /\ a.v <= b.v

----------------------------------------------------------------------------
(* GameState *)

\* Date.now() - lastWinTime is kept in ticks as the field winAge; it only
\* matters whether it is below, at or beyond comboTimeout, so it stops
\* growing one tick beyond the timeout
WinAgeCap == comboTimeout \div TickMs + 1

\* The constructor; lastWinTime = 0 lies far beyond the timeout in the past.
\* prizeCount is the length of the collection this.prizes
GameStateInit ==
    [coins |-> startingCoins, points |-> 0, streak |-> 0, totalPlays |-> 0,
     isPlaying |-> FALSE, clawPosition |-> [x |-> 50, y |-> 50],
     gameStarted |-> FALSE, combo |-> 0, winAge |-> WinAgeCap, prizeCount |-> 0]

\* reset()
reset(gs) == GameStateInit

\* time passes for the GameState: Date.now() grows by one tick
elapse(gs) == [gs EXCEPT !.winAge = Min(@ + 1, WinAgeCap)]

\* The GameState of an idle machine after `played` earlier grabs that each
\* ran to completion and missed without the consolation points
AfterPlays(played) ==
    [GameStateInit EXCEPT !.coins = startingCoins - played, !.totalPlays = played,
                          !.gameStarted = played > 0]

\* canPlay(): has coins and not currently playing
canPlay(gs) == gs.coins > 0 /\ ~gs.isPlaying

\* spendCoin(): its result, and the state after the call (unchanged when it
\* returns false)
spendCoinOk(gs) == ~(gs.coins <= 0)

\* faulty variant: the coin count is not checked
spendCoinUnchecked(gs) == [gs EXCEPT !.coins = @ - 1, !.totalPlays = @ + 1]

\* faulty variant: the play is not counted
spendCoinNoPlayCount(gs) ==
    IF gs.coins <= 0 THEN gs ELSE [gs EXCEPT !.coins = @ - 1]

spendCoin(gs) ==
    IF gs.coins <= 0 THEN gs
    ELSE [gs EXCEPT !.coins = @ - 1, !.totalPlays = @ + 1]

\* what a statement of spendCoin() leaves for anything that looks
Seen(stmt, gs) == [stmt |-> stmt, coins |-> gs.coins, totalPlays |-> gs.totalPlays]

\* the statements that show state to the player
Observers == {"updateDisplay", "showStatusMessage", "animateScoreChange"}

\* faulty variant: the display is refreshed between the two updates
spendCoinStepsDisplayFirst(gs) ==
    IF gs.coins <= 0 THEN <<Seen("showStatusMessage", gs)>>
    ELSE LET paid == [gs EXCEPT !.coins = @ - 1]
             counted == [paid EXCEPT !.totalPlays = @ + 1]
         IN  <<Seen("coins--", paid), Seen("updateDisplay", paid),
               Seen("totalPlays++", counted), Seen("animateScoreChange", counted)>>

\* spendCoin(): its statements in program order, each with the state it leaves
spendCoinSteps(gs) ==
    IF gs.coins <= 0 THEN <<Seen("showStatusMessage", gs)>>
    ELSE LET paid == [gs EXCEPT !.coins = @ - 1]
             counted == [paid EXCEPT !.totalPlays = @ + 1]
         IN  <<Seen("coins--", paid), Seen("totalPlays++", counted),
               Seen("updateDisplay", counted), Seen("animateScoreChange", counted)>>

\* addCoins(amount)
addCoins(gs, amount) == [gs EXCEPT !.coins = @ + amount]

\* addPoints(amount): amount in twentieths of a point
addPoints(gs, amount) == [gs EXCEPT !.points = @ + amount]

\* the values Math.floor(Math.random() * (max - min + 1)) + min can take
\* that are explored: both ends of the range
rewardDraws(prizeType) ==
    IF prizeType \in {"kuromiPlush", "pointToken"}
    THEN {pointValues[prizeType].min, pointValues[prizeType].max}
    ELSE {0}

\* faulty variant: the combo bonus already applies to the first win
processPrizeRewardBonusAtOnce(gs, prizeType, baseReward) ==
    CASE prizeType = "kuromiPlush" ->
             addPoints(gs, baseReward * (10 + gs.combo) * (pointScale \div 10))
      [] prizeType = "yellowCoin" ->
             addPoints(addCoins(gs, pointValues.yellowCoin.coins),
                       coinBasePoints * pointScale)
      [] prizeType = "pointToken" ->
             addPoints(gs, baseReward * (20 + (gs.streak - 1)) * (pointScale \div 20))
      [] OTHER -> gs

\* processPrizeReward(prizeType): baseReward is the random draw; a type
\* without a case in the switch earns nothing
processPrizeReward(gs, prizeType, baseReward) ==
    CASE prizeType = "kuromiPlush" ->
             \* baseReward * (1 + (combo - 1) * 0.1)
             addPoints(gs, baseReward * (10 + (gs.combo - 1)) * (pointScale \div 10))
      [] prizeType = "yellowCoin" ->
             addPoints(addCoins(gs, pointValues.yellowCoin.coins),
                       coinBasePoints * pointScale)
      [] prizeType = "pointToken" ->
             \* baseReward * (1 + (streak - 1) * 0.05)
             addPoints(gs, baseReward * (20 + (gs.streak - 1)) * (pointScale \div 20))
      [] OTHER -> gs

\* faulty variant: the combo grows whatever the time since the last win
collectPrizeNoWindow(gs, prizeType, baseReward) ==
    LET streak == IF gs.streak + 1 > maxStreak THEN maxStreak ELSE gs.streak + 1
    IN  processPrizeReward([gs EXCEPT !.combo = @ + 1, !.winAge = 0,
                                      !.streak = streak, !.prizeCount = @ + 1],
                           prizeType, baseReward)

\* faulty variant: the streak starts over beyond the cap
collectPrizeWrapStreak(gs, prizeType, baseReward) ==
    LET combo == IF gs.winAge * TickMs < comboTimeout THEN gs.combo + 1 ELSE 1
        streak == IF gs.streak + 1 > maxStreak THEN 0 ELSE gs.streak + 1
    IN  processPrizeReward([gs EXCEPT !.combo = combo, !.winAge = 0,
                                      !.streak = streak, !.prizeCount = @ + 1],
                           prizeType, baseReward)

\* collectPrize(prizeType): the combo window, the capped streak, the
\* collection and the reward
collectPrize(gs, prizeType, baseReward) ==
    LET combo == IF gs.winAge * TickMs < comboTimeout THEN gs.combo + 1 ELSE 1
        streak == IF gs.streak + 1 > maxStreak THEN maxStreak ELSE gs.streak + 1
    IN  processPrizeReward([gs EXCEPT !.combo = combo, !.winAge = 0,
                                      !.streak = streak, !.prizeCount = @ + 1],
                           prizeType, baseReward)

\* faulty variant: the combo survives a miss
missedGrabKeepsCombo(gs, bonus) ==
    LET g == [gs EXCEPT !.streak = 0]
    IN  IF bonus THEN addPoints(g, consolationPoints * pointScale) ELSE g

\* missedGrab(): bonus is the outcome of Math.random() < 0.3
missedGrab(gs, bonus) ==
    LET g == [gs EXCEPT !.streak = 0, !.combo = 0]
    IN  IF bonus THEN addPoints(g, consolationPoints * pointScale) ELSE g

updateClawPosition(gs, p) ==
    [gs EXCEPT !.clawPosition = [x |-> Max(10, Min(90, p.x)),
                                 y |-> Max(10, Min(90, p.y))]]

setPlaying(gs, playing) ==
    [gs EXCEPT !.isPlaying = playing,
               !.gameStarted = IF playing /\ ~@ THEN TRUE ELSE @]

\* settings.successRates[prizeType]: undefined for a type without an entry
baseRate(prizeType) ==
    IF prizeType \in DOMAIN successRates THEN Num(successRates[prizeType]) ELSE NaN

getSuccessRate(gs, prizeType) ==
    LET streakBonus == Num(Min(gs.streak * streakBonusStep, streakBonusCap))
        lowCoinPenalty == Num(IF gs.coins < lowCoinThreshold THEN lowCoinPenaltyPct ELSE 0)
    IN  MathMax(Num(rateFloor),
                MathMin(Num(rateCeiling),
                        JsSub(JsAdd(baseRate(prizeType), streakBonus), lowCoinPenalty)))

----------------------------------------------------------------------------
(* PrizeGenerator.  attemptGrab, dropPrize and transportPrize are called by *)
(* the claw but are not part of prize.js; they follow the design document: *)
(* the candidate is the prize getPrizeAtPosition finds, it is won when the  *)
(* random draw is below getSuccessRate, a won prize is flagged grabbed, and *)
(* dropPrize puts it back into play.                                        *)

\* A prize as createPrize builds it
createPrize(type, x, y) ==
    [type |-> type, position |-> [x |-> x, y |-> y], grabbed |-> FALSE, collected |-> FALSE]

\* A sample of generatePrizes: prizes in array order (types in prizeTypes
\* order); positions are random and resolveOverlaps gives up after 50 tries
PrizeLayout ==
    <<createPrize("kuromiPlush", 45, 55),
      createPrize("yellowCoin", 20, 20),
      createPrize("purpleBall", 66, 50)>>

\* Array.find: the first prize in array order that is in reach, or NoPrize
getPrizeAtPosition(ps, x, y, tolerance) ==
    LET inReach(i) ==
            /\ ~(ps[i].collected \/ ps[i].grabbed)
            /\ (ps[i].position.x - x) * (ps[i].position.x - x)
                 + (ps[i].position.y - y) * (ps[i].position.y - y)
               <= tolerance * tolerance
        hits == {i \in DOMAIN ps : inReach(i)}
    IN  IF hits = {} THEN NoPrize
        ELSE CHOOSE i \in hits : \A j \in hits : i <= j

\* attemptGrab(x, y): the outcomes {success, prize} the resolver can return.
\* A candidate is won when Math.random() < getSuccessRate(type); a NaN rate
\* never wins, a rate inside (0,1) can go either way.
attemptGrabOutcomes(ps, gs, x, y) ==
    LET cand == getPrizeAtPosition(ps, x, y, grabTolerance)
        rate == IF cand = NoPrize THEN NaN ELSE getSuccessRate(gs, ps[cand].type)
    IN  (IF cand = NoPrize \/ rate.nan \/ rate.v < 100
         THEN {[success |-> FALSE, prize |-> NoPrize]} ELSE {})
        \cup (IF cand # NoPrize /\ ~rate.nan /\ rate.v > 0
              THEN {[success |-> TRUE, prize |-> cand]} ELSE {})

\* the prize is held by the claw for the rest of the sequence
markGrabbed(ps, id) == [ps EXCEPT ![id].grabbed = TRUE]

\* dropPrize(prize): the prize goes back into play, nothing is awarded
dropPrize(ps, id) == [ps EXCEPT ![id].grabbed = FALSE]

----------------------------------------------------------------------------
(* Timers *)

Timer(cb, ms, stale) == [cb |-> cb, delay |-> ms \div TickMs, stale |-> stale]

Schedule(b, ts) == b (+) SetToBag(ts)

Due(b) == {t \in BagToSet(b) : t.delay = 0}

Remove(b, t) == b (-) SetToBag({t})

TickTimers(b) ==
    LET Dec(t) == [t EXCEPT !.delay = @ - 1]
        Inc(t) == [t EXCEPT !.delay = @ + 1]
    IN  [t \in {Dec(u) : u \in DOMAIN b} |-> b[Inc(t)]]

MarkStale(b) ==
    LET S(t) == [t EXCEPT !.stale = TRUE]
    IN  [t \in {S(u) : u \in DOMAIN b} |->
            (IF t \in DOMAIN b THEN b[t] ELSE 0)
            + (IF [t EXCEPT !.stale = FALSE] \in DOMAIN b
               THEN b[[t EXCEPT !.stale = FALSE]] ELSE 0)]

----------------------------------------------------------------------------
(* History records *)

\* op: the command or callback; ret: its result; stale: the callback was
\* pending at an emergencyStop; held: the prize held when it started;
\* calls: the GameState methods it invoked
Op(op, ret, stale, held, calls) ==
    [op |-> op, ret |-> ret, stale |-> stale, held |-> held, calls |-> calls]

Held(c) == c.grabbedPrize

Spend(b, what, max) == [b EXCEPT ![what] = IF @ < max THEN @ + 1 ELSE @]

----------------------------------------------------------------------------
(* ClawController *)

ClawInit ==
    [position |-> homePosition, isMoving |-> FALSE, isGrabbing |-> FALSE,
     grabbedPrize |-> NoPrize]

\* Earlier plays considered: none, all but the last coin, every coin
PlayedBefore == {0, startingCoins - 1, startingCoins}

\* The machine after construction, or idle again after some earlier plays
Init ==
    /\ claw = ClawInit
    /\ \E played \in PlayedBefore : gameState = AfterPlays(played)
    /\ prizes = PrizeLayout
    /\ timers = EmptyBag
    /\ last = Op("init", TRUE, FALSE, NoPrize, <<>>)
    /\ dropped = FALSE
    /\ budget = [moves |-> 0, grabs |-> 0, stops |-> 0, calls |-> 0]

\* faulty variant: the target is not clamped to the boundaries
moveTargetUnclamped(p, direction) ==
    CASE direction = "left"    -> [p EXCEPT !.x = p.x - moveStep]
      [] direction = "right"   -> [p EXCEPT !.x = p.x + moveStep]
      [] direction = "forward" -> [p EXCEPT !.y = p.y + moveStep]
      [] direction = "back"    -> [p EXCEPT !.y = p.y - moveStep]

\* the clamped target of move(direction)
moveTarget(p, direction) ==
    CASE direction = "left"    -> [p EXCEPT !.x = Max(minX, p.x - moveStep)]
      [] direction = "right"   -> [p EXCEPT !.x = Min(maxX, p.x + moveStep)]
      [] direction = "forward" -> [p EXCEPT !.y = Min(maxY, p.y + moveStep)]
      [] direction = "back"    -> [p EXCEPT !.y = Max(minY, p.y - moveStep)]

\* faulty variants: the check forgets isMoving / forgets canPlay()
busyIgnoresMoving(c, gs) == c.isGrabbing \/ ~canPlay(gs)
busyIgnoresCanPlay(c, gs) == c.isMoving \/ c.isGrabbing

\* the busy check of move() and grab()
busy(c, gs) == c.isMoving \/ c.isGrabbing \/ ~canPlay(gs)

\* faulty variant: the new position is not stored
animateMovementStaysPut(c, newPosition) == [c EXCEPT !.isMoving = TRUE]

\* animateMovement(newPosition): the claw fields it sets
animateMovement(c, newPosition) ==
    [c EXCEPT !.isMoving = TRUE, !.position = newPosition]

\* move(direction)
Move(direction) ==
    LET newPosition == moveTarget(claw.position, direction)
    IN  /\ dropped' = dropped
        /\ prizes' = prizes
        /\ IF busy(claw, gameState) \/ newPosition = claw.position
           THEN /\ last' = Op("move", FALSE, FALSE, Held(claw), <<>>)
                /\ UNCHANGED <<claw, gameState, timers, budget>>
           ELSE /\ claw' = animateMovement(claw, newPosition)
                /\ gameState' = updateClawPosition(gameState, newPosition)
                /\ timers' = Schedule(timers, {Timer("moveEnd", moveSpeed, FALSE)})
                /\ budget' = Spend(budget, "moves", MaxMoves)
                /\ last' = Op("move", TRUE, FALSE, Held(claw), <<"updateClawPosition">>)

\* faulty variant: the claw is raised before the grab is resolved
executeGrabSequenceRaiseFirst ==
    {Timer("animateClawUp", (grabSequenceTime * 4) \div 10, FALSE),
     Timer("attemptGrab", (grabSequenceTime * 6) \div 10, FALSE),
     Timer("returnClaw", (grabSequenceTime * 8) \div 10, FALSE),
     Timer("completeGrabSequence", grabSequenceTime, FALSE)}

\* executeGrabSequence(): the four phase callbacks
executeGrabSequence ==
    {Timer("attemptGrab", (grabSequenceTime * 4) \div 10, FALSE),
     Timer("animateClawUp", (grabSequenceTime * 6) \div 10, FALSE),
     Timer("returnClaw", (grabSequenceTime * 8) \div 10, FALSE),
     Timer("completeGrabSequence", grabSequenceTime, FALSE)}

\* grab()
Grab ==
    /\ prizes' = prizes
    /\ IF busy(claw, gameState) \/ ~spendCoinOk(gameState)
       THEN /\ last' = Op("grab", FALSE, FALSE, Held(claw), <<>>)
            /\ UNCHANGED <<claw, gameState, timers, dropped, budget>>
       ELSE /\ claw' = [claw EXCEPT !.isGrabbing = TRUE]
            /\ gameState' = setPlaying(spendCoin(gameState), TRUE)
            /\ timers' = Schedule(timers, executeGrabSequence)
            /\ dropped' = FALSE
            /\ budget' = Spend(budget, "grabs", MaxGrabs)
            /\ last' = Op("grab", TRUE, FALSE, Held(claw), <<"spendCoin", "setPlaying">>)

\* drop()
Drop ==
    /\ UNCHANGED <<gameState, timers, budget>>
    /\ IF ~claw.isGrabbing /\ claw.grabbedPrize = NoPrize
       THEN /\ last' = Op("drop", FALSE, FALSE, Held(claw), <<>>)
            /\ UNCHANGED <<claw, prizes, dropped>>
       ELSE /\ last' = Op("drop", TRUE, FALSE, Held(claw), <<>>)
            /\ IF claw.grabbedPrize # NoPrize
               THEN /\ prizes' = dropPrize(prizes, claw.grabbedPrize)
                    /\ claw' = [claw EXCEPT !.grabbedPrize = NoPrize]
                    /\ dropped' = TRUE
               ELSE UNCHANGED <<claw, prizes, dropped>>

\* resetToHome(): the claw fields it sets
resetToHome(c) == [c EXCEPT !.position = homePosition]

\* faulty variant: the held prize is not released
emergencyStopKeepsPrize(c) ==
    resetToHome([c EXCEPT !.isMoving = FALSE, !.isGrabbing = FALSE])

\* emergencyStop(): the claw fields it sets
emergencyStop(c) ==
    resetToHome([c EXCEPT !.isMoving = FALSE, !.isGrabbing = FALSE,
                          !.grabbedPrize = NoPrize])

\* emergencyStop(); pending callbacks are not cleared
EmergencyStop ==
    /\ claw' = emergencyStop(claw)
    /\ gameState' = updateClawPosition(setPlaying(gameState, FALSE), homePosition)
    /\ prizes' = IF claw.grabbedPrize # NoPrize
                 THEN dropPrize(prizes, claw.grabbedPrize) ELSE prizes
    /\ timers' = IF claw.isMoving \/ claw.isGrabbing THEN MarkStale(timers) ELSE timers
    /\ dropped' = FALSE
    /\ budget' = Spend(budget, "stops", MaxStops)
    /\ last' = Op("emergencyStop", TRUE, FALSE, Held(claw),
                  <<"setPlaying", "updateClawPosition">>)

\* attemptGrab(): the claw and the prize field after a grab result
attemptGrab(c, ps, result) ==
    IF result.success
    THEN <<[c EXCEPT !.grabbedPrize = result.prize], markGrabbed(ps, result.prize)>>
    ELSE <<c, ps>>

\* returnClaw(): the drop zone when a prize is held, else home
returnClaw(c) ==
    [c EXCEPT !.position = IF c.grabbedPrize # NoPrize THEN dropZone ELSE homePosition]

\* faulty variant: the grabbing flag is left set
completeGrabSequenceStaysGrabbing(c) == [c EXCEPT !.grabbedPrize = NoPrize]

\* completeGrabSequence(): the claw fields it sets
completeGrabSequence(c) == [c EXCEPT !.isGrabbing = FALSE, !.grabbedPrize = NoPrize]

\* completeGrabSequence(): the progression calls it makes; bonus is the
\* consolation draw of missedGrab
completeProgression(c, gs, bonus) ==
    IF c.grabbedPrize # NoPrize
    THEN setPlaying(gs, FALSE)
    ELSE missedGrab(setPlaying(gs, FALSE), bonus)

completeCalls(c) ==
    IF c.grabbedPrize # NoPrize THEN <<"setPlaying">> ELSE <<"setPlaying", "missedGrab">>

\* A due setTimeout callback runs
Fire(t) ==
    /\ t \in Due(timers)
    /\ UNCHANGED <<dropped, budget>>
    /\ CASE t.cb = "moveEnd" ->
              /\ claw' = [claw EXCEPT !.isMoving = FALSE]
              /\ timers' = Remove(timers, t)
              /\ last' = Op(t.cb, TRUE, t.stale, Held(claw), <<>>)
              /\ UNCHANGED <<gameState, prizes>>
         [] t.cb = "attemptGrab" ->
              \E result \in attemptGrabOutcomes(prizes, gameState,
                                                claw.position.x, claw.position.y) :
                  /\ claw' = attemptGrab(claw, prizes, result)[1]
                  /\ prizes' = attemptGrab(claw, prizes, result)[2]
                  /\ timers' = Remove(timers, t)
                  /\ last' = Op(t.cb, result.success, t.stale, Held(claw), <<>>)
                  /\ UNCHANGED gameState
         [] t.cb = "animateClawUp" ->
              \* transportPrize(grabbedPrize) only animates the held prize
              /\ timers' = Remove(timers, t)
              /\ last' = Op(t.cb, TRUE, t.stale, Held(claw), <<>>)
              /\ UNCHANGED <<claw, gameState, prizes>>
         [] t.cb = "returnClaw" ->
              /\ claw' = returnClaw(claw)
              /\ timers' = Remove(timers, t)
              /\ last' = Op(t.cb, TRUE, t.stale, Held(claw), <<>>)
              /\ UNCHANGED <<gameState, prizes>>
         [] t.cb = "completeGrabSequence" ->
              \E bonus \in BOOLEAN :
                  /\ claw' = completeGrabSequence(claw)
                  /\ gameState' = completeProgression(claw, gameState, bonus)
                  /\ timers' = Schedule(Remove(timers, t),
                                        {Timer("resetToHome", settleDelay, t.stale)})
                  /\ last' = Op(t.cb, TRUE, t.stale, Held(claw), completeCalls(claw))
                  /\ UNCHANGED prizes
         [] t.cb = "resetToHome" ->
              /\ claw' = resetToHome(claw)
              /\ gameState' = updateClawPosition(gameState, homePosition)
              /\ timers' = Remove(timers, t)
              /\ last' = Op(t.cb, TRUE, t.stale, Held(claw), <<"updateClawPosition">>)
              /\ UNCHANGED prizes

\* Time passes: one tick, when no callback is due
Tick ==
    /\ timers # EmptyBag
    /\ Due(timers) = {}
    /\ timers' = TickTimers(timers)
    /\ gameState' = elapse(gameState)
    /\ last' = Op("tick", TRUE, FALSE, Held(claw), <<>>)
    /\ UNCHANGED <<claw, prizes, dropped, budget>>

\* Any interleaving of player commands, callbacks and the passage of time;
\* the bounds limit the commands that are accepted, a command that the busy
\* check rejects is always possible
Next ==
    \/ ((budget.moves < MaxMoves \/ busy(claw, gameState))
          /\ \E direction \in Directions : Move(direction))
    \/ ((budget.grabs < MaxGrabs \/ busy(claw, gameState)) /\ Grab)
    \/ Drop
    \/ (budget.stops < MaxStops /\ EmergencyStop)
    \/ \E t \in BagToSet(timers) : Fire(t)
    \/ Tick

Spec == Init /\ [][Next]_vars

\* The browser runs every setTimeout callback once its delay has passed:
\* time keeps passing and a due callback is eventually run
FireDue == \E t \in BagToSet(timers) : Fire(t)

FairSpec == Spec /\ WF_vars(Tick) /\ WF_vars(FireDue)

----------------------------------------------------------------------------
(* The keyboard: the X key is the drop command of the welcome message      *)

\* handleKeyboard(event) with event.key 'x': ignored while isMoving or
\* isGrabbing, otherwise drop()
KeyX ==
    /\ UNCHANGED <<gameState, timers, budget>>
    /\ IF claw.isMoving \/ claw.isGrabbing
       THEN /\ last' = Op("keyX", FALSE, FALSE, Held(claw), <<>>)
            /\ UNCHANGED <<claw, prizes, dropped>>
       ELSE IF claw.grabbedPrize = NoPrize
            THEN /\ last' = Op("keyX", FALSE, FALSE, Held(claw), <<"drop">>)
                 /\ UNCHANGED <<claw, prizes, dropped>>
            ELSE /\ last' = Op("keyX", TRUE, FALSE, Held(claw), <<"drop">>)
                 /\ prizes' = dropPrize(prizes, claw.grabbedPrize)
                 /\ claw' = [claw EXCEPT !.grabbedPrize = NoPrize]
                 /\ dropped' = TRUE

NextKeys == Next \/ KeyX

SpecKeys == Init /\ [][NextKeys]_vars

----------------------------------------------------------------------------
(* The new-game command of the game shell                                  *)

\* prizeGenerator.reset(): a fresh prize field, no prize grabbed or collected
resetPrizes == PrizeLayout

\* resetGame(): gameState.reset(), prizeGenerator.reset(),
\* clawController.resetToHome(); pending callbacks are not cleared
ResetGame ==
    /\ gameState' = updateClawPosition(reset(gameState), homePosition)
    /\ prizes' = resetPrizes
    /\ claw' = resetToHome(claw)
    /\ last' = Op("resetGame", TRUE, FALSE, Held(claw), <<"reset", "updateClawPosition">>)
    /\ UNCHANGED <<timers, dropped, budget>>

NextReset == Next \/ ResetGame

SpecReset == Init /\ [][NextReset]_vars

----------------------------------------------------------------------------
(* The game loop of the game shell: checkSpecialConditions runs every      *)
(* 100 ms and grants coins to a player on a streak who has run out         *)

replenishStreak == 3
replenishCoins == 2

\* faulty variant: the streak is not looked at
checkSpecialConditionsAnyStreak(gs) ==
    IF gs.coins = 0 THEN addCoins(gs, replenishCoins) ELSE gs

\* checkSpecialConditions(): the auto-replenishment (its other branches
\* only trigger visual effects)
checkSpecialConditions(gs) ==
    IF gs.coins = 0 /\ gs.streak >= replenishStreak
    THEN addCoins(gs, replenishCoins) ELSE gs

\* n prizes of one type collected in quick succession
RECURSIVE AfterWinsOf(_, _, _)
AfterWinsOf(gs, prizeType, n) ==
    IF n = 0 THEN gs ELSE collectPrize(AfterWinsOf(gs, prizeType, n - 1), prizeType, 0)

\* The starts considered: the last coin left with a streak one short of
\* the replenishment; no coin left with a streak just enough for it
LoopStarts ==
    {[played |-> startingCoins - 1, won |-> replenishStreak - 1],
     [played |-> startingCoins, won |-> replenishStreak]}

\* an idle machine after some plays and a run of purple balls, which earn
\* neither coins nor points
InitLoop ==
    /\ claw = ClawInit
    /\ \E start \in LoopStarts :
           gameState = AfterWinsOf(AfterPlays(start.played), "purpleBall", start.won)
    /\ prizes = PrizeLayout
    /\ timers = EmptyBag
    /\ last = Op("init", TRUE, FALSE, NoPrize, <<>>)
    /\ dropped = FALSE
    /\ budget = [moves |-> 0, grabs |-> 0, stops |-> 0, calls |-> 0]

\* updateGame(): one run of the game loop
GameLoop ==
    /\ gameState' = checkSpecialConditions(gameState)
    /\ last' = Op("gameLoop", gameState'.coins # gameState.coins, FALSE, Held(claw), <<>>)
    /\ UNCHANGED <<claw, prizes, timers, dropped, budget>>

NextLoop == Next \/ GameLoop

SpecLoop == InitLoop /\ [][NextLoop]_vars

----------------------------------------------------------------------------
(* The notifications of the game shell.  setupEventListeners registers one *)
(* listener per event on document; dispatchEvent runs the listeners        *)
(* synchronously, inside the caller.  last.op is the statement executed    *)
(* last, last.ret the event with the number of listener runs it has caused *)
(* so far, last.calls the event detail.                                    *)

EventNames == {"prizeCollected", "comboAchieved", "rarePrizeWon"}

\* the details explored: the prize type, or the combo level
EventDetails(event) ==
    IF event = "comboAchieved" THEN 2 .. 5 ELSE PrizeTypeNames

\* the event a handler dispatches as its last statement: its own
dispatchedBy(event) == event

InitEvents ==
    /\ claw = ClawInit
    /\ gameState = GameStateInit
    /\ prizes = PrizeLayout
    /\ timers = EmptyBag
    /\ last = Op("init", [event |-> "none", runs |-> 0], FALSE, NoPrize, <<>>)
    /\ dropped = FALSE
    /\ budget = [moves |-> 0, grabs |-> 0, stops |-> 0, calls |-> 0]

\* the game dispatches an event: its listener starts the handler
DispatchEvent(event, detail) ==
    /\ last.op \in {"init", "RangeError"}
    /\ last' = Op("handler", [event |-> event, runs |-> 1], FALSE, NoPrize, <<detail>>)
    /\ UNCHANGED <<claw, gameState, prizes, timers, dropped, budget>>

\* the running handler reaches its document.dispatchEvent(event): the
\* listener of that event starts its handler inside the running one
HandlerDispatches ==
    /\ last.op = "handler"
    /\ last.ret.runs < MaxStack
    /\ last' = Op("handler",
                  [event |-> dispatchedBy(last.ret.event), runs |-> last.ret.runs + 1],
                  FALSE, NoPrize, last.calls)
    /\ UNCHANGED <<claw, gameState, prizes, timers, dropped, budget>>

\* the call stack is full: the innermost call throws and the handlers unwind
StackOverflow ==
    /\ last.op = "handler"
    /\ last.ret.runs = MaxStack
    /\ last' = Op("RangeError", last.ret, FALSE, NoPrize, last.calls)
    /\ UNCHANGED <<claw, gameState, prizes, timers, dropped, budget>>

NextEvents ==
    \/ \E event \in EventNames : \E detail \in EventDetails(event) :
           DispatchEvent(event, detail)
    \/ HandlerDispatches
    \/ StackOverflow

SpecEvents == InitEvents /\ [][NextEvents]_vars

----------------------------------------------------------------------------
(* Movement alone: any sequence of move requests, without a bound on their *)
(* number                                                                  *)

NextMove ==
    \/ \E direction \in Directions : Move(direction)
    \/ \E t \in BagToSet(timers) : Fire(t)
    \/ Tick

SpecMove == Init /\ [][NextMove]_vars

----------------------------------------------------------------------------
(* getSuccessRate as a function of its inputs: every streak, a range of    *)
(* coin counts, every prize type the prize field generates                 *)

InitRate ==
    /\ claw = ClawInit
    /\ \E coins \in 0 .. MaxCoinsInput, streak \in 0 .. maxStreak :
           gameState = [GameStateInit EXCEPT !.coins = coins, !.streak = streak]
    /\ prizes = PrizeLayout
    /\ timers = EmptyBag
    /\ last = Op("init", TRUE, FALSE, NoPrize, <<>>)
    /\ dropped = FALSE
    /\ budget = [moves |-> 0, grabs |-> 0, stops |-> 0, calls |-> 0]

QueryRate(prizeType) ==
    /\ last' = Op("getSuccessRate", getSuccessRate(gameState, prizeType), FALSE,
                  NoPrize, <<prizeType>>)
    /\ UNCHANGED <<claw, gameState, prizes, timers, dropped, budget>>

NextRate == \E prizeType \in PrizeTypeNames : QueryRate(prizeType)

SpecRate == InitRate /\ [][NextRate]_vars

----------------------------------------------------------------------------
(* getPrizeAtPosition as a function of its inputs: every position the claw *)
(* can be steered to, every combination of prizes already held             *)

\* positions a whole number of steps from home
GrabPositions ==
    {[x |-> x, y |-> y] : x \in {v \in minX .. maxX : (v - homePosition.x) % moveStep = 0},
                          y \in {v \in minY .. maxY : (v - homePosition.y) % moveStep = 0}}

InitPrize ==
    /\ \E p \in GrabPositions : claw = [ClawInit EXCEPT !.position = p]
    /\ gameState = GameStateInit
    /\ \E held \in SUBSET DOMAIN PrizeLayout :
           prizes = [i \in DOMAIN PrizeLayout |->
                        [PrizeLayout[i] EXCEPT !.grabbed = i \in held]]
    /\ timers = EmptyBag
    /\ last = Op("init", TRUE, FALSE, NoPrize, <<>>)
    /\ dropped = FALSE
    /\ budget = [moves |-> 0, grabs |-> 0, stops |-> 0, calls |-> 0]

QueryPrize ==
    /\ last' = Op("getPrizeAtPosition",
                  getPrizeAtPosition(prizes, claw.position.x, claw.position.y,
                                     grabTolerance),
                  FALSE, NoPrize, <<>>)
    /\ UNCHANGED <<claw, gameState, prizes, timers, dropped, budget>>

NextPrize == QueryPrize

SpecPrize == InitPrize /\ [][NextPrize]_vars

----------------------------------------------------------------------------
(* Prize generation: generatePrizes places every prize at a random         *)
(* position and resolveOverlaps re-places prizes that overlap.  Positions  *)
(* here are in units of 1/posScale, Math.random() in hundredths.  The      *)
(* locals of resolveOverlaps (attempts, i, j, hasOverlap) are kept in      *)
(* last.ret; last.op is the statement that was executed last.              *)

\* prizeTypes[type].size: width and height are equal
prizeSize == [kuromiPlush |-> 45, yellowCoin |-> 35, pointToken |-> 30, purpleBall |-> 32]

boundaries == [left |-> 0, right |-> 100, top |-> 0, bottom |-> 85]

margin == 5
buffer == 5
maxAttempts == 50
posScale == 200

\* the values of Math.random() explored, in hundredths
RandomDraws == {0, 50, 99}

\* the prizes generated: one of three types, in prizeTypes order
GeneratedTypes == <<"kuromiPlush", "yellowCoin", "purpleBall">>

\* getRandomPosition(size): rx, ry are the two values of Math.random();
\* margin + r * (right - left - width/2 - margin*2)
getRandomPosition(size, rx, ry) ==
    [x |-> margin * posScale
             + rx * (2 * (boundaries.right - boundaries.left) - size - 4 * margin),
     y |-> margin * posScale
             + ry * (2 * (boundaries.bottom - boundaries.top) - size - 4 * margin)]

Abs(v) == IF v < 0 THEN -v ELSE v

\* checkOverlap(prize1, prize2)
checkOverlap(prize1, prize2) ==
    LET dx == Abs(prize1.position.x - prize2.position.x)
        dy == Abs(prize1.position.y - prize2.position.y)
        minDistance == ((prizeSize[prize1.type] + prizeSize[prize2.type]) * posScale) \div 2
                         + buffer * posScale
    IN  dx < minDistance /\ dy < minDistance

Locals(attempts, i, j, hasOverlap) ==
    [attempts |-> attempts, i |-> i, j |-> j, hasOverlap |-> hasOverlap]

\* generatePrizes() up to the call of resolveOverlaps, which starts its
\* first pass
InitOverlap ==
    /\ claw = ClawInit
    /\ gameState = GameStateInit
    /\ \E rx, ry \in [DOMAIN GeneratedTypes -> RandomDraws] :
           prizes = [k \in DOMAIN GeneratedTypes |->
                        LET position == getRandomPosition(prizeSize[GeneratedTypes[k]],
                                                          rx[k], ry[k])
                        IN  createPrize(GeneratedTypes[k], position.x, position.y)]
    /\ timers = EmptyBag
    /\ last = Op("generatePrizes", Locals(0, 1, 2, FALSE), FALSE, NoPrize, <<>>)
    /\ dropped = FALSE
    /\ budget = [moves |-> 0, grabs |-> 0, stops |-> 0, calls |-> 0]

\* the loops of resolveOverlaps are running and the inner loop has a pair
InPass == last.op \in {"generatePrizes", "checkPair", "nextPass"}

\* the pair after (i, j); i = Len(prizes) when the pass is over
NextPair(i, j) ==
    IF j < Len(prizes) THEN <<i, j + 1>>
    ELSE IF i + 1 < Len(prizes) THEN <<i + 1, i + 2>> ELSE <<Len(prizes), Len(prizes)>>

\* faulty variant: the flag only remembers the last pair
hasOverlapLastPairOnly(hasOverlap, overlap) == overlap

\* hasOverlap after a pair was checked
hasOverlapAfter(hasOverlap, overlap) == hasOverlap \/ overlap

\* the body of the inner loop for the pair (i, j): an overlapping second
\* prize gets a new random position
CheckPair ==
    LET l == last.ret
        overlap == checkOverlap(prizes[l.i], prizes[l.j])
        next == NextPair(l.i, l.j)
    IN  /\ InPass /\ l.i < Len(prizes)
        /\ IF overlap
           THEN \E rx, ry \in RandomDraws :
                    prizes' = [prizes EXCEPT ![l.j].position =
                                  getRandomPosition(prizeSize[prizes[l.j].type], rx, ry)]
           ELSE prizes' = prizes
        /\ last' = Op("checkPair",
                      Locals(l.attempts, next[1], next[2],
                             hasOverlapAfter(l.hasOverlap, overlap)),
                      FALSE, NoPrize, <<>>)
        /\ UNCHANGED <<claw, gameState, timers, dropped, budget>>

\* the end of a pass: break when nothing overlapped, else count the
\* attempt and go on while attempts < maxAttempts
EndPass ==
    LET l == last.ret
    IN  /\ InPass /\ l.i = Len(prizes)
        /\ last' = IF ~l.hasOverlap
                   THEN Op("return", l, FALSE, NoPrize, <<>>)
                   ELSE IF l.attempts + 1 < maxAttempts
                        THEN Op("nextPass", Locals(l.attempts + 1, 1, 2, FALSE),
                                FALSE, NoPrize, <<>>)
                        ELSE Op("return", Locals(l.attempts + 1, l.i, l.j, l.hasOverlap),
                                FALSE, NoPrize, <<>>)
        /\ UNCHANGED <<claw, gameState, prizes, timers, dropped, budget>>

NextOverlap == CheckPair \/ EndPass

SpecOverlap == InitOverlap /\ [][NextOverlap]_vars

----------------------------------------------------------------------------
(* GameState alone: any sequence of calls of its methods, as the claw, the *)
(* prize field, the game loop and the debug panel make them, with time     *)
(* passing in between.  The claw stands idle.                              *)

\* Earlier wins considered: none, one short of the streak cap
WinsBefore == {0, maxStreak - 1}

\* n yellow coins collected in quick succession
RECURSIVE AfterWins(_, _)
AfterWins(gs, n) ==
    IF n = 0 THEN gs ELSE collectPrize(AfterWins(gs, n - 1), "yellowCoin", 0)

\* the amounts addCoins is called with by the game loop and the debug panel
CoinGrants == {2, 10}

\* the amount addPoints is called with by the debug panel
debugPoints == 100

InitGame ==
    /\ claw = ClawInit
    /\ \E played \in PlayedBefore, won \in WinsBefore :
           gameState = AfterWins(AfterPlays(played), won)
    /\ prizes = PrizeLayout
    /\ timers = EmptyBag
    /\ last = Op("init", TRUE, FALSE, NoPrize, <<>>)
    /\ dropped = FALSE
    /\ budget = [moves |-> 0, grabs |-> 0, stops |-> 0, calls |-> 0]

\* a call of a GameState method that leaves the state gs
Call(op, ret, calls, gs) ==
    /\ budget.calls < MaxCalls
    /\ gameState' = gs
    /\ budget' = Spend(budget, "calls", MaxCalls)
    /\ last' = Op(op, ret, FALSE, NoPrize, calls)
    /\ UNCHANGED <<claw, prizes, timers, dropped>>

SpendCoin ==
    Call("spendCoin", spendCoinOk(gameState), spendCoinSteps(gameState),
         spendCoin(gameState))

AddCoins(amount) == Call("addCoins", TRUE, <<amount>>, addCoins(gameState, amount))

AddPoints ==
    Call("addPoints", TRUE, <<debugPoints>>,
         addPoints(gameState, debugPoints * pointScale))

CollectPrize(prizeType, baseReward) ==
    Call("collectPrize", TRUE, <<prizeType>>,
         collectPrize(gameState, prizeType, baseReward))

MissedGrab(bonus) == Call("missedGrab", TRUE, <<>>, missedGrab(gameState, bonus))

SetPlaying(playing) == Call("setPlaying", TRUE, <<>>, setPlaying(gameState, playing))

Reset == Call("reset", TRUE, <<>>, reset(gameState))

\* one tick passes between two calls
Elapse ==
    /\ gameState' = elapse(gameState)
    /\ last' = Op("elapse", TRUE, FALSE, NoPrize, <<>>)
    /\ UNCHANGED <<claw, prizes, timers, dropped, budget>>

NextGame ==
    \/ SpendCoin
    \/ \E amount \in CoinGrants : AddCoins(amount)
    \/ AddPoints
    \/ \E prizeType \in PrizeTypeNames :
           \E baseReward \in rewardDraws(prizeType) : CollectPrize(prizeType, baseReward)
    \/ \E bonus \in BOOLEAN : MissedGrab(bonus)
    \/ \E playing \in BOOLEAN : SetPlaying(playing)
    \/ Reset
    \/ Elapse

SpecGame == InitGame /\ [][NextGame]_vars

----------------------------------------------------------------------------
(* Properties *)

ClawState == <<claw.isMoving, claw.isGrabbing, claw.grabbedPrize, claw.position>>

Progression ==
    <<gameState.coins, gameState.points, gameState.streak, gameState.combo,
      gameState.totalPlays>>

InFlight == claw.isMoving \/ claw.isGrabbing

\* C1: after an emergencyStop issued during a grab or move sequence, a
\* callback that was pending at the stop (or was scheduled by such a
\* callback) changes no claw or progression state when it fires.
C1_StaleCallbackChangesNothing ==
    [][last'.stale =>
          /\ ClawState' = ClawState
          /\ gameState'.isPlaying = gameState.isPlaying
          /\ gameState'.streak = gameState.streak
          /\ gameState'.combo = gameState.combo
          /\ gameState'.points = gameState.points]_vars

\* C2: a move or grab is never accepted while a callback of an earlier
\* sequence (its settle-delay reposition included) is still pending.
C2_AcceptedOnlyWithNoPendingCallback ==
    [][(last'.op \in {"move", "grab"} /\ last'.ret) => timers = EmptyBag]_vars

\* C3: a move or grab issued while isMoving or isGrabbing is true returns
\* false and leaves claw, progression, prizes and pending callbacks unchanged.
C3_BusyRequestIsNoOp ==
    [][(last'.op \in {"move", "grab"} /\ InFlight) =>
          /\ last'.ret = FALSE
          /\ UNCHANGED <<claw, gameState, prizes, timers>>]_vars

\* C3 witness: a grab was rejected during a movement although coins remain.
C3_Witness ==
    /\ last.op = "grab" /\ last.ret = FALSE
    /\ claw.isMoving /\ gameState.coins > 0

\* C4: every accepted grab takes exactly one coin and counts exactly one
\* play; a grab with no coins returns false and changes no state.
C4_GrabSpendsOneCoin ==
    [][last'.op = "grab" =>
          /\ gameState.coins = 0 => last'.ret = FALSE
          /\ IF last'.ret
             THEN /\ gameState'.coins = gameState.coins - 1
                  /\ gameState'.totalPlays = gameState.totalPlays + 1
             ELSE UNCHANGED <<claw, gameState, prizes, timers>>]_vars

\* C4 witness: an idle machine with no coins has rejected a grab after
\* earlier grabs were accepted.
C4_Witness ==
    /\ last.op = "grab" /\ last.ret = FALSE
    /\ gameState.coins = 0 /\ ~InFlight
    /\ budget.grabs > 0

\* C5: starting at home, after any sequence of moves the claw position is
\* inside minX..maxX and minY..maxY.
C5_PositionInBounds ==
    /\ claw.position.x >= minX /\ claw.position.x <= maxX
    /\ claw.position.y >= minY /\ claw.position.y <= maxY

\* C5 witness: an accepted move was clamped at the right and at the front
\* boundary (85 and 75 are not a whole number of steps from home).
C5_Witness ==
    /\ last.op = "move" /\ last.ret
    /\ claw.position = [x |-> maxX, y |-> maxY]

\* C6: getSuccessRate returns a number between the floor 0.3 and the
\* ceiling 0.9 for every generated prize type, streak and coin count.
C6_RateWithinFloorAndCeiling ==
    last.op = "getSuccessRate" =>
        JsLe(Num(rateFloor), last.ret) /\ JsLe(last.ret, Num(rateCeiling))

\* C7: when an uninterrupted grab sequence completes holding a prize, the
\* prize is marked collected and collectPrize is invoked once; holding no
\* prize, missedGrab is invoked once; exactly one of the two happens.
C7_CompletionRecordsWinOrMiss ==
    (last.op = "completeGrabSequence" /\ ~last.stale) =>
        LET wins == {i \in DOMAIN last.calls : last.calls[i] = "collectPrize"}
            misses == {i \in DOMAIN last.calls : last.calls[i] = "missedGrab"}
        IN  IF last.held # NoPrize
            THEN /\ prizes[last.held].collected
                 /\ Cardinality(wins) = 1 /\ misses = {}
            ELSE Cardinality(misses) = 1 /\ wins = {}

\* C8: when drop() released the held prize during a grab sequence, the
\* completion of that sequence awards no points, keeps streak and combo and
\* records no miss.
C8_DropIsNeitherWinNorMiss ==
    [][(last'.op = "completeGrabSequence" /\ ~last'.stale /\ dropped) =>
          /\ gameState'.points = gameState.points
          /\ gameState'.streak = gameState.streak
          /\ gameState'.combo = gameState.combo
          /\ \A i \in DOMAIN last'.calls : last'.calls[i] # "missedGrab"]_vars

\* C9: emergencyStop, in any state, ends idle with no prize held and the
\* claw at home, and itself changes no coins, points, streak, combo or
\* totalPlays.
C9_EmergencyStopResets ==
    [][last'.op = "emergencyStop" =>
          /\ ~claw'.isMoving /\ ~claw'.isGrabbing /\ ~gameState'.isPlaying
          /\ claw'.grabbedPrize = NoPrize
          /\ claw'.position = homePosition
          /\ Progression' = Progression]_vars

\* C9 witness: the stop came in a grab sequence with a prize held, and the
\* prize is back in play.
C9_Witness ==
    /\ last.op = "emergencyStop" /\ last.held # NoPrize
    /\ ~prizes[last.held].grabbed /\ ~prizes[last.held].collected
    /\ claw.grabbedPrize = NoPrize

\* C10 as stated: canPlay() is true iff coins > 0 and neither a move nor a
\* grab sequence is in flight.
C10_CanPlayIffIdleWithCoins ==
    canPlay(gameState) <=> (gameState.coins > 0 /\ ~InFlight)

\* C10 amended: canPlay() is true iff coins > 0 and isPlaying is false, and
\* a move never sets isPlaying: during the movement of an accepted move
\* canPlay() returns true.
C10_CanPlayDuringMove ==
    /\ canPlay(gameState) <=> (gameState.coins > 0 /\ ~gameState.isPlaying)
    /\ claw.isMoving => canPlay(gameState)

\* C10 witness: time has passed in a movement and canPlay() is true.
C10_Witness ==
    /\ last.op = "tick" /\ claw.isMoving /\ ~claw.isGrabbing
    /\ canPlay(gameState)

\* C11: a win at elapsed time e since the last win makes combo combo + 1
\* when e is below the combo timeout and 1 otherwise, and restarts the
\* window (lastWinTime becomes the time of the win).
C11_ComboWindow ==
    [][last'.op = "collectPrize" =>
          /\ gameState'.combo =
                 IF gameState.winAge * TickMs < comboTimeout
                 THEN gameState.combo + 1 ELSE 1
          /\ gameState'.winAge = 0]_vars

\* C11 witness: a win more than the timeout after two wins inside one
\* window gave combo 1.
C11_Witness ==
    /\ last.op = "collectPrize" /\ gameState.combo = 1
    /\ gameState.streak = 3 /\ gameState.prizeCount = 3

\* C12: in every reachable state, if more than the combo timeout has
\* elapsed since lastWinTime then combo = 0.
C12_NoStaleCombo ==
    gameState.winAge * TickMs > comboTimeout => gameState.combo = 0

\* C13: every missedGrab leaves streak = 0 and combo = 0 and changes
\* neither coins nor the rate getSuccessRate returns for a streak and a
\* coin count.
C13_MissResetsStreakAndCombo ==
    [][last'.op = "missedGrab" =>
          /\ gameState'.streak = 0 /\ gameState'.combo = 0
          /\ gameState'.coins = gameState.coins
          /\ \A prizeType \in PrizeTypeNames :
                 getSuccessRate(gameState', prizeType)
                   = getSuccessRate([gameState EXCEPT !.streak = 0], prizeType)]_vars

\* C13 witness: the first call after nine wins in a row was a miss.
C13_Witness ==
    /\ last.op = "missedGrab" /\ budget.calls = 1
    /\ gameState.prizeCount = maxStreak - 1
    /\ gameState.streak = 0 /\ gameState.combo = 0

\* C14: the streak never decreases except by missedGrab or reset.
C14_StreakLoweredOnlyByMissOrReset ==
    [][gameState'.streak < gameState.streak =>
          last'.op \in {"missedGrab", "reset"}]_vars

\* C14 witness: a win at the streak cap left the streak at the cap.
C14_Witness ==
    /\ last.op = "collectPrize"
    /\ gameState.streak = maxStreak /\ gameState.prizeCount = maxStreak + 1

\* C15: in every reachable state coins >= 0, points >= 0,
\* 0 <= streak <= maxStreak and combo >= 0.
C15_ProgressionInRange ==
    /\ gameState.coins >= 0
    /\ gameState.points >= 0
    /\ gameState.streak >= 0 /\ gameState.streak <= maxStreak
    /\ gameState.combo >= 0

\* C15 witness: spendCoin was refused with no coins left, after wins.
C15_Witness ==
    /\ last.op = "spendCoin" /\ last.ret = FALSE
    /\ gameState.coins = 0 /\ gameState.streak > 0

\* C16: spendCoin() with no coins returns false and changes neither coins
\* nor totalPlays; otherwise it returns true, takes one coin and counts one
\* play, and whatever shows state to the player runs after both updates.
C16_SpendCoinIsAtomic ==
    [][last'.op = "spendCoin" =>
          IF gameState.coins = 0
          THEN /\ last'.ret = FALSE
               /\ gameState'.coins = gameState.coins
               /\ gameState'.totalPlays = gameState.totalPlays
          ELSE /\ last'.ret = TRUE
               /\ gameState'.coins = gameState.coins - 1
               /\ gameState'.totalPlays = gameState.totalPlays + 1
               /\ \A i \in DOMAIN last'.calls :
                      last'.calls[i].stmt \in Observers =>
                          /\ last'.calls[i].coins = gameState'.coins
                          /\ last'.calls[i].totalPlays = gameState'.totalPlays]_vars

\* C16 witness: the last coin was spent and the display was refreshed.
C16_Witness ==
    /\ last.op = "spendCoin" /\ last.ret
    /\ gameState.coins = 0
    /\ \E i \in DOMAIN last.calls : last.calls[i].stmt = "updateDisplay"

\* squared distance of prize i from the claw
Distance2(i) ==
    (prizes[i].position.x - claw.position.x) * (prizes[i].position.x - claw.position.x)
    + (prizes[i].position.y - claw.position.y) * (prizes[i].position.y - claw.position.y)

\* the prizes that are neither collected nor grabbed and within the tolerance
Eligible ==
    {i \in DOMAIN prizes :
        /\ ~prizes[i].collected /\ ~prizes[i].grabbed
        /\ Distance2(i) <= grabTolerance * grabTolerance}

\* C17: the candidate getPrizeAtPosition returns is an eligible prize and
\* no eligible prize is strictly closer; with no eligible prize there is no
\* candidate.
C17_CandidateIsNearest ==
    last.op = "getPrizeAtPosition" =>
        IF Eligible = {} THEN last.ret = NoPrize
        ELSE /\ last.ret \in Eligible
             /\ \A j \in Eligible : Distance2(j) >= Distance2(last.ret)

\* the steps of a grab sequence and the tenths of its duration at which
\* C18 places them
GrabPhases == <<"attemptGrab", "animateClawUp", "returnClaw", "completeGrabSequence">>
phaseTenths == <<4, 6, 8, 10>>

\* the pending callbacks that are steps of a grab sequence
PhaseTimers == {t \in BagToSet(timers) : \E i \in DOMAIN GrabPhases : t.cb = GrabPhases[i]}

\* right after step i (0: the acceptance) exactly the later steps are
\* pending, once each, each due at its own share of the duration
StepsFrom(i) ==
    LET done == IF i = 0 THEN 0 ELSE phaseTenths[i]
    IN  /\ PhaseTimers =
             {Timer(GrabPhases[j], ((phaseTenths[j] - done) * grabSequenceTime) \div 10,
                    FALSE) : j \in (i + 1) .. Len(GrabPhases)}
        /\ \A t \in PhaseTimers : CopiesIn(t, timers) = 1

C19_SequencesEnd ==
    /\ (last.op = "move" /\ last.ret) ~> ~claw.isMoving
    /\ (last.op = "grab" /\ last.ret) ~> (~claw.isGrabbing /\ ~gameState.isPlaying)
    /\ (last.op = "grab" /\ last.ret)
          ~> (last.op = "resetToHome" /\ claw.position = homePosition)
    /\ [](last.op = "completeGrabSequence" =>
             Timer("resetToHome", settleDelay, last.stale) \in BagToSet(timers))

\* C19 witness: the settle delay after a grab sequence the claw was put
\* back at home, idle.
C19_Witness ==
    /\ last.op = "resetToHome" /\ ~last.stale /\ budget.grabs > 0
    /\ claw.position = homePosition
    /\ ~claw.isGrabbing /\ ~gameState.isPlaying

\* C20: drop() with no prize held returns false in every state, a running
\* grab sequence included, and changes no state.
C20_DropWithoutPrizeFails ==
    [][(last'.op = "drop" /\ claw.grabbedPrize = NoPrize) =>
          /\ last'.ret = FALSE
          /\ UNCHANGED <<claw, gameState, prizes, timers>>]_vars

\* C21: pressing X while the claw holds a prize in a grab sequence drops
\* that prize: the key releases whatever prize drop() can release.
C21_KeyXDropsHeldPrize ==
    [][(last'.op = "keyX" /\ claw.grabbedPrize # NoPrize) =>
          /\ claw'.grabbedPrize = NoPrize
          /\ ~prizes'[claw.grabbedPrize].grabbed]_vars

\* every pair of prizes is at least (w1 + w2)/2 + 5 apart on an axis
MinDistanceHolds ==
    \A a, b \in DOMAIN prizes :
        a < b =>
            LET need == ((prizeSize[prizes[a].type] + prizeSize[prizes[b].type]) * posScale) \div 2
                          + 5 * posScale
            IN  \/ Abs(prizes[a].position.x - prizes[b].position.x) >= need
                \/ Abs(prizes[a].position.y - prizes[b].position.y) >= need

\* C22: when resolveOverlaps returns, no pair of prizes overlaps or all 50
\* passes were used, and it never returns before that from a pass in which
\* it moved a prize.
C22_ReturnsSeparatedOrExhausted ==
    last.op = "return" =>
        /\ MinDistanceHolds \/ last.ret.attempts = maxAttempts
        /\ last.ret.attempts < maxAttempts => ~last.ret.hasOverlap

\* C22 witness: resolveOverlaps returned after some but not all passes with
\* every pair separated.
C22_Witness ==
    /\ last.op = "return"
    /\ last.ret.attempts > 0 /\ last.ret.attempts < maxAttempts
    /\ MinDistanceHolds

\* C23: every position produced for a prize, at generation and at each
\* re-randomization, has margin <= x <= right - width - margin and
\* margin <= y <= bottom - height - margin.
C23_PositionWithinMargins ==
    \A k \in DOMAIN prizes :
        LET size == prizeSize[prizes[k].type]
        IN  /\ prizes[k].position.x >= margin * posScale
            /\ prizes[k].position.x <= (boundaries.right - size - margin) * posScale
            /\ prizes[k].position.y >= margin * posScale
            /\ prizes[k].position.y <= (boundaries.bottom - size - margin) * posScale

\* C24: a kuromiPlush win that is the first of a streak (streak and combo
\* become 1) adds a whole number of points between 50 and 100 and leaves
\* the coins unchanged.
C24_FirstPlushWinReward ==
    [][(/\ last'.op = "collectPrize" /\ last'.calls = <<"kuromiPlush">>
        /\ gameState'.streak = 1 /\ gameState'.combo = 1) =>
          /\ \E k \in 50 .. 100 : gameState'.points = gameState.points + k * pointScale
          /\ gameState'.coins = gameState.coins]_vars

\* C24 witness: the first win of a new game was a kuromiPlush worth 100.
C24_Witness ==
    /\ last.op = "collectPrize" /\ last.calls = <<"kuromiPlush">>
    /\ gameState.streak = 1 /\ gameState.combo = 1
    /\ gameState.points = pointValues.kuromiPlush.max * pointScale
    /\ gameState.coins = startingCoins

\* an accepted move: one coordinate changes by more than 0 and at most
\* moveStep, the other one and the progression do not change
AcceptedMoveFrame ==
    LET dx == Abs(claw'.position.x - claw.position.x)
        dy == Abs(claw'.position.y - claw.position.y)
    IN  /\ \/ dx > 0 /\ dx <= moveStep /\ dy = 0
           \/ dy > 0 /\ dy <= moveStep /\ dx = 0
        /\ Progression' = Progression

\* C25 as stated: an accepted move changes exactly one coordinate by more
\* than 0 and at most moveStep and no progression value; a move is
\* rejected, with the position unchanged, exactly when the clamped target
\* equals the current position.
C25_MoveRejectedIffAtBoundary ==
    [][\A direction \in Directions :
          Move(direction) =>
              /\ last'.ret => AcceptedMoveFrame
              /\ ~last'.ret => claw'.position = claw.position
              /\ ~last'.ret <=> moveTarget(claw.position, direction) = claw.position]_vars

\* C25 amended: as stated for a move that passes the busy check (not
\* moving, not grabbing, canPlay()); a move that fails the busy check is
\* rejected with the position unchanged whatever its target.
C25_MoveFrame ==
    [][\A direction \in Directions :
          Move(direction) =>
              /\ last'.ret => AcceptedMoveFrame
              /\ ~last'.ret => claw'.position = claw.position
              /\ IF busy(claw, gameState)
                 THEN ~last'.ret
                 ELSE ~last'.ret <=>
                          moveTarget(claw.position, direction) = claw.position]_vars

\* C25 witness: an idle claw with coins, standing at the right boundary,
\* has rejected a move.
C25_Witness ==
    /\ last.op = "move" /\ ~last.ret
    /\ ~busy(claw, gameState)
    /\ claw.position.x = maxX

\* C26: after a move was accepted the position stays at its target until
\* the next accepted move or grab; in particular the settle reposition of
\* an earlier grab sequence does not change the position while that move
\* is still in progress.
C26_SettleTimerKeepsMoveTarget ==
    [][(last'.op = "resetToHome" /\ ~last'.stale /\ claw.isMoving) =>
          claw'.position = claw.position]_vars

\* C27: in every reachable state a held prize implies isGrabbing.
C27_HoldsOnlyWhileGrabbing ==
    claw.grabbedPrize # NoPrize => claw.isGrabbing

\* the progression a new game starts with
InitialProgression ==
    /\ gameState.coins = startingCoins /\ gameState.points = 0
    /\ gameState.streak = 0 /\ gameState.combo = 0
    /\ gameState.totalPlays = 0 /\ ~gameState.isPlaying

\* C28: resetGame() leaves the progression at its initial values and the
\* claw not grabbing, also in the middle of a grab sequence, and the
\* progression stays there when a callback runs or time passes right after
\* the reset.
C28_ResetGameRestoresIdle ==
    [][/\ last'.op = "resetGame" => (InitialProgression' /\ ~claw'.isGrabbing)
       /\ (last.op = "resetGame" /\ last'.op \notin {"move", "grab", "drop", "emergencyStop"})
             => InitialProgression']_vars

\* out of coins, below the replenishment streak, no grab in flight
OutOfPlay ==
    /\ gameState.coins = 0 /\ gameState.streak < 3
    /\ ~claw.isGrabbing

\* C29: from a state with no grab in flight, coins = 0 and streak < 3,
\* every step leads to such a state again and every move and grab in it is
\* rejected; the game loop grants coins only at coins = 0 and streak >= 3.
C29_OutOfCoinsIsFinal ==
    [][/\ OutOfPlay =>
             /\ OutOfPlay'
             /\ last'.op \in {"move", "grab"} => ~last'.ret
       /\ (last'.op = "gameLoop" /\ gameState'.coins # gameState.coins) =>
             (gameState.coins = 0 /\ gameState.streak >= 3)]_vars

\* C29 witness: the last coin was played and missed, and with no coins
\* and no streak left a grab was rejected.
C29_Witness ==
    /\ last.op = "grab" /\ ~last.ret
    /\ OutOfPlay /\ gameState.streak = 0 /\ gameState.prizeCount > 0
    /\ budget.grabs > 0

\* C30: handling one notification ends: the one listener registered for
\* the event runs once per dispatched event and does not start itself again.
C30_HandlerRunsOncePerEvent ==
    last.op = "handler" => last.ret.runs <= 1

====
